---- MODULE Spec2Model ----
(***************************************************************************)
(* Question-management backend: the relational tables (questions,         *)
(* audit_logs), the per-day audit files and the HTTP handlers of main.py  *)
(* over crud.py and audit_logger.py.                                      *)
(*                                                                         *)
(* Spec       : the HTTP handlers, one action per request, run one at a   *)
(*              time against the database and the audit directory.        *)
(* ImportSpec : the import endpoint with every kind of upload.            *)
(* DiffSpec   : log_question_change on arbitrary snapshots.               *)
(* FileSpec   : file_handler.py, saves and deletes in the upload dir.     *)
(* RaceSpec   : two requests on one question run concurrently, each step  *)
(*              of a handler that reads or commits being one action.      *)
(* AuditSpec  : audit_logger.py alone, its two functions called with      *)
(*              arbitrary snapshots while the clock advances.             *)
(***************************************************************************)
EXTENDS Integers, Sequences, FiniteSets, Bags, TLC

VARIABLES
  questions,   \* the questions table: row i has primary key i
  audit_logs,  \* the audit_logs table, in insertion order
  files,       \* the audit directory: day |-> the lines of audit_<day>.log
  now,         \* the UTC clock
  tz,          \* the server's offset from UTC
  req,         \* the last request served
  resp,        \* its response
  uploads,     \* the upload directory and the uuids drawn so far
  sessions     \* the requests in progress, one database session each

vars == <<questions, audit_logs, files, now, tz, req, resp, uploads, sessions>>

----------------------------------------------------------------------------
(* Bounds of the model *)

\* rows of the questions table
MaxQuestions == 2
\* mutating requests served in one run
MaxOps == 2
\* clock ticks in one calendar day
DayLen == 2
\* last tick of the clock, which starts at the first tick of day 1
MaxNow == 5
\* lines written to the audit directory (AuditSpec)
MaxLines == 3
\* largest days_back asked of the history scan
MaxDaysBack == 2
\* largest value stored in a snapshot (DiffSpec)
MaxVal == 4
\* calls of save_uploaded_file in one run (FileSpec)
MaxUploads == 3

----------------------------------------------------------------------------
(* Python values *)

\* Optional[T]: None, or a supplied value
None == <<>>
Some(v) == <<v>>

\* bool(x) of an Optional[dict]: None and the empty dict are both falsy
Truthy(opt) == opt # None /\ DOMAIN opt[1] # {}

\* str.lower() on the characters used
Lower(c) ==
  CASE c = "A" -> "a" [] c = "B" -> "b" [] c = "S" -> "s" [] c = "T" -> "t"
    [] OTHER -> c

\* the characters of the strings that are searched (subjects, topics, patterns)
Chars(s) ==
  CASE s = "Ab" -> <<"A", "b">>
    [] s = "b"  -> <<"b">>
    [] s = "a"  -> <<"a">>
    [] s = "B"  -> <<"B">>
    [] s = "AB" -> <<"A", "B">>
    [] s = "S"  -> <<"S">>
    [] s = "S2" -> <<"S", "2">>
    [] s = "T"  -> <<"T">>
    [] OTHER    -> <<>>

\* models.UserRole, with the ids init_db.py gives the default users
Users == {1, 2, 3}
Role(u) == CASE u = 1 -> "admin" [] u = 2 -> "editor" [] OTHER -> "viewer"
Username(u) == Role(u)

DifficultyLevel == {"easy", "medium", "hard"}
QuestionStatus == {"prod", "devmt"}
PROD == "prod"
DEVMT == "devmt"

----------------------------------------------------------------------------
(* audit_logger.py *)

\* str.lower() of the action tags
ActionLower(a) ==
  CASE a = "CREATE" -> "create"
    [] a = "UPDATE" -> "update"
    [] a = "DELETE" -> "delete"
    [] a = "STATUS_CHANGE" -> "status_change"
    [] a = "IMPORT" -> "import"
    [] OTHER -> a

\* datetime.utcnow().isoformat(): the UTC instant; its date part is UtcDay
UtcDay(t) == t \div DayLen
\* datetime.now().strftime('%Y-%m-%d'): the calendar day of the server's zone
LocalDay(t, z) == (t + z) \div DayLen

\* the day that names the file audit_<day>.log
get_audit_filename(t, z) == LocalDay(t, z)

\* mutant: every key the two snapshots share is reported, changed or not
Changes_KeepsUnchanged(old_data, new_data) ==
  LET keys == {k \in DOMAIN new_data : k \in DOMAIN old_data}
  IN  [k \in keys |-> [old |-> old_data[k], new |-> new_data[k]]]

\* the per-field diff of log_question_change
Changes(old_data, new_data) ==
  LET keys == {k \in DOMAIN new_data :
                 k \in DOMAIN old_data /\ old_data[k] # new_data[k]}
  IN  [k \in keys |-> [old |-> old_data[k], new |-> new_data[k]]]

\* the entry log_question_change builds; an absent "changes"/"data" is None
AuditEntry(t, question_id, user_id, username, action, old_data, new_data, summary) ==
  [timestamp   |-> t,
   question_id |-> question_id,
   user_id     |-> user_id,
   username    |-> username,
   action      |-> action,
   summary     |-> IF summary # None /\ summary[1] # <<>>
                   THEN summary[1]
                   ELSE <<"Question ", ActionLower(action)>>,
   changes     |-> IF Truthy(old_data) /\ Truthy(new_data)
                   THEN Some(Changes(old_data[1], new_data[1]))
                   ELSE None,
   data        |-> IF ~(Truthy(old_data) /\ Truthy(new_data)) /\ Truthy(new_data)
                   THEN Some(new_data[1])
                   ELSE None]

\* json.dumps(entry) + newline, and a line json.loads rejects
json_dumps(entry) == [ok |-> TRUE, entry |-> entry]
BadLine == [ok |-> FALSE]

\* mutant: the file is opened for writing, not for appending
AppendLine_Truncates(f, day, line) ==
  [d \in DOMAIN f \cup {day} |-> IF d = day THEN <<line>> ELSE f[d]]

\* open(filename, 'a').write(line): the file is created when absent
AppendLine(f, day, line) ==
  IF day \in DOMAIN f
  THEN [f EXCEPT ![day] = Append(@, line)]
  ELSE [d \in DOMAIN f \cup {day} |-> IF d = day THEN <<line>> ELSE f[d]]

\* the audit directory after log_question_change at UTC instant t in zone z
log_question_change(f, t, z, question_id, user_id, username, action, old_data, new_data, summary) ==
  AppendLine(f, get_audit_filename(t, z),
             json_dumps(AuditEntry(t, question_id, user_id, username, action,
                                   old_data, new_data, summary)))

\* the entries of one file that parse and carry the queried id, in file order
RECURSIVE MatchingEntries(_, _)
MatchingEntries(lines, question_id) ==
  IF lines = <<>> THEN <<>>
  ELSE LET rest == MatchingEntries(Tail(lines), question_id)
           line == Head(lines)
       IN  IF line.ok /\ line.entry.question_id = question_id
           THEN <<line.entry>> \o rest
           ELSE rest

\* the loop over range(days_back): file of today first, then the days before
RECURSIVE ScanDays(_, _, _, _, _)
ScanDays(f, today, question_id, i, days_back) ==
  IF i >= days_back THEN <<>>
  ELSE (IF (today - i) \in DOMAIN f
        THEN MatchingEntries(f[today - i], question_id)
        ELSE <<>>)
       \o ScanDays(f, today, question_id, i + 1, days_back)

\* x placed after every entry whose timestamp is not smaller: stable, descending
RECURSIVE InsertDesc(_, _)
InsertDesc(sorted, x) ==
  IF sorted = <<>> THEN <<x>>
  ELSE IF Head(sorted).timestamp >= x.timestamp
       THEN <<Head(sorted)>> \o InsertDesc(Tail(sorted), x)
       ELSE <<x>> \o sorted

\* mutant: the history is returned in scan order, unsorted
SortDesc_Unsorted(acc, rest) == acc \o rest

\* history.sort(key=timestamp, reverse=True)
RECURSIVE SortDesc(_, _)
SortDesc(acc, rest) ==
  IF rest = <<>> THEN acc
  ELSE SortDesc(InsertDesc(acc, Head(rest)), Tail(rest))

get_question_audit_history(f, t, z, question_id, days_back) ==
  SortDesc(<<>>, ScanDays(f, LocalDay(t, z), question_id, 0, days_back))

----------------------------------------------------------------------------
(* crud.py *)

\* Column.ilike('%pattern%'): case-insensitive substring match
ILike(value, pattern) ==
  LET v == Chars(value)
      p == Chars(pattern)
  IN  \E i \in 0..(Len(v) - Len(p)) :
        \A j \in 1..Len(p) : Lower(v[i + j]) = Lower(p[j])

\* a row of the questions table as create_question inserts it
NewRow(id, q, user_id) ==
  [id                  |-> id,
   subject             |-> q.subject,
   topic               |-> q.topic,
   question            |-> q.question,
   difficulty          |-> q.difficulty,
   status              |-> PROD,
   attachment_filename |-> q.attachment_filename,
   attachment_path     |-> None,
   is_deleted          |-> FALSE,
   created_by          |-> user_id,
   updated_by          |-> None]

\* get_question: the row, or None
get_question(qs, question_id, include_deleted) ==
  IF question_id \in DOMAIN qs /\ (include_deleted \/ ~qs[question_id].is_deleted)
  THEN Some(qs[question_id])
  ELSE None

\* mutant: the soft-delete filter is left out of the WHERE clause
MatchesFilters_NoDeletedFilter(row, subject, topic, difficulty, status, include_deleted) ==
  /\ (subject # None /\ subject[1] # "") => ILike(row.subject, subject[1])
  /\ (topic # None /\ topic[1] # "") => ILike(row.topic, topic[1])
  /\ (difficulty # None) => row.difficulty = difficulty[1]
  /\ (status # None) => row.status = status[1]

\* the WHERE clause get_questions and get_questions_count build
MatchesFilters(row, subject, topic, difficulty, status, include_deleted) ==
  /\ (include_deleted \/ ~row.is_deleted)
  /\ (subject # None /\ subject[1] # "") => ILike(row.subject, subject[1])
  /\ (topic # None /\ topic[1] # "") => ILike(row.topic, topic[1])
  /\ (difficulty # None) => row.difficulty = difficulty[1]
  /\ (status # None) => row.status = status[1]

\* the rows of the query, in primary-key order
FilterRows(rows, subject, topic, difficulty, status, include_deleted) ==
  SelectSeq(rows, LAMBDA row : MatchesFilters(row, subject, topic, difficulty, status, include_deleted))

Min(a, b) == IF a <= b THEN a ELSE b

\* query.offset(skip).limit(limit).all()
get_questions(qs, skip, limit, subject, topic, difficulty, status, include_deleted) ==
  LET all == FilterRows(qs, subject, topic, difficulty, status, include_deleted)
  IN  SubSeq(all, skip + 1, Min(Len(all), skip + limit))

\* query.count()
get_questions_count(qs, subject, topic, difficulty, status, include_deleted) ==
  Len(FilterRows(qs, subject, topic, difficulty, status, include_deleted))

\* create_question: the table with the new row; its id is the next primary key
create_question(qs, q, user_id) ==
  Append(qs, NewRow(Len(qs) + 1, q, user_id))

\* columns declared nullable=False that an update payload can name
NotNullFields == {"subject", "topic", "question", "difficulty", "status"}

\* setattr(db_question, field, value) for every field of update_data
ApplyUpdate(row, update_data, user_id) ==
  [k \in DOMAIN row |->
     IF k = "updated_by" THEN Some(user_id)
     ELSE IF k \in DOMAIN update_data
          THEN (IF k \in NotNullFields THEN update_data[k][1] ELSE update_data[k])
          ELSE row[k]]

\* update_question: [qs, row, raised]; the commit raises when a NOT NULL
\* column was set to None, and then nothing is stored
update_question(qs, question_id, update_data, user_id) ==
  LET found == get_question(qs, question_id, FALSE)
  IN  IF found = None
      THEN [qs |-> qs, row |-> None, raised |-> FALSE]
      ELSE IF \E k \in DOMAIN update_data \cap NotNullFields : update_data[k] = None
           THEN [qs |-> qs, row |-> None, raised |-> TRUE]
           ELSE LET row == ApplyUpdate(found[1], update_data, user_id)
                IN  [qs |-> [qs EXCEPT ![question_id] = row],
                     row |-> Some(row), raised |-> FALSE]

\* mutant: the soft delete also takes the question out of production
soft_delete_question_ResetsStatus(qs, question_id, user_id) ==
  LET found == get_question(qs, question_id, FALSE)
  IN  IF found = None
      THEN [qs |-> qs, row |-> None]
      ELSE LET row == [found[1] EXCEPT !.is_deleted = TRUE,
                                       !.status = DEVMT,
                                       !.updated_by = Some(user_id)]
           IN  [qs |-> [qs EXCEPT ![question_id] = row], row |-> Some(row)]

\* soft_delete_question: [qs, row]
soft_delete_question(qs, question_id, user_id) ==
  LET found == get_question(qs, question_id, FALSE)
  IN  IF found = None
      THEN [qs |-> qs, row |-> None]
      ELSE LET row == [found[1] EXCEPT !.is_deleted = TRUE,
                                       !.updated_by = Some(user_id)]
           IN  [qs |-> [qs EXCEPT ![question_id] = row], row |-> Some(row)]

\* set_question_status: [qs, row]
set_question_status(qs, question_id, status, user_id) ==
  LET found == get_question(qs, question_id, FALSE)
  IN  IF found = None
      THEN [qs |-> qs, row |-> None]
      ELSE LET row == [found[1] EXCEPT !.status = status,
                                       !.updated_by = Some(user_id)]
           IN  [qs |-> [qs EXCEPT ![question_id] = row], row |-> Some(row)]

\* create_audit_log: the audit_logs table with the new row
create_audit_log(al, question_id, user_id, action, changes_summary) ==
  Append(al, [id |-> Len(al) + 1, question_id |-> question_id,
              user_id |-> user_id, action |-> action,
              changes_summary |-> changes_summary])

----------------------------------------------------------------------------
(* main.py: the request handlers *)

\* auth.require_editor_or_admin
require_editor_or_admin(u) == Role(u) \in {"admin", "editor"}

\* the before/after snapshot the update handler builds from a row
Snapshot(row) ==
  [subject             |-> row.subject,
   topic               |-> row.topic,
   question            |-> row.question,
   difficulty          |-> row.difficulty,
   status              |-> row.status,
   attachment_filename |-> row.attachment_filename]

\* an HTTP response; code 200 carries the body, any other the error detail
Response(op, u, code, detail, body) ==
  [op |-> op, user |-> u, code |-> code, detail |-> detail, body |-> body]

Forbidden(op, u) == Response(op, u, 403, "Not enough permissions", None)
NotFound(op, u) == Response(op, u, 404, "Question not found", None)

\* lines written to the audit directory so far, over all daily files
RECURSIVE TrailCount(_, _)
TrailCount(f, days) ==
  IF days = {} THEN 0
  ELSE LET d == CHOOSE x \in days : TRUE
       IN  Len(f[d]) + TrailCount(f, days \ {d})

\* POST /api/questions
CreateQuestionResult(qs, al, f, t, z, u, q) ==
  IF ~require_editor_or_admin(u)
  THEN [qs |-> qs, al |-> al, f |-> f, resp |-> Forbidden("create", u)]
  ELSE LET qs1 == create_question(qs, q, u)
           db_question == qs1[Len(qs1)]
           f1  == log_question_change(f, t, z, db_question.id, u, Username(u), "CREATE", None, Some(q), Some(<<"Question created: ", q.subject, " - ", q.topic>>))
           al1 == create_audit_log(al, db_question.id, u, "CREATE", <<"Question created">>)
       IN  [qs |-> qs1, al |-> al1, f |-> f1,
            resp |-> Response("create", u, 200, "", Some(db_question))]

\* mutant: the handler forgets to reset the status of an edited question
WithEditStatus_Forgotten(question_update) == question_update

\* the payload as crud.update_question sees it: a status that is None (unset
\* or null) has been assigned DEVMT, which also marks the field as set
WithEditStatus(question_update) ==
  IF "status" \in DOMAIN question_update /\ question_update["status"] # None
  THEN question_update
  ELSE [k \in DOMAIN question_update \cup {"status"} |->
          IF k = "status" THEN Some(DEVMT) ELSE question_update[k]]

\* PUT /api/questions/{question_id}
UpdateQuestionResult(qs, al, f, t, z, u, question_id, question_update) ==
  IF ~require_editor_or_admin(u)
  THEN [qs |-> qs, al |-> al, f |-> f, resp |-> Forbidden("update", u)]
  ELSE LET original_question == get_question(qs, question_id, FALSE)
       IN  IF original_question = None
           THEN [qs |-> qs, al |-> al, f |-> f, resp |-> NotFound("update", u)]
           ELSE LET original_data == Snapshot(original_question[1])
                    r == update_question(qs, question_id, WithEditStatus(question_update), u)
                IN  IF r.raised \/ r.row = None
                    THEN [qs |-> r.qs, al |-> al, f |-> f,
                          resp |-> Response("update", u, 500, "Internal Server Error", None)]
                    ELSE LET db_question == r.row[1]
                             new_data == Snapshot(db_question)
                             f1  == log_question_change(f, t, z, db_question.id, u, Username(u), "UPDATE", Some(original_data), Some(new_data), Some(<<"Question updated: ", db_question.subject, " - ", db_question.topic>>))
                             al1 == create_audit_log(al, db_question.id, u, "UPDATE", <<"Question updated">>)
                         IN  [qs |-> r.qs, al |-> al1, f |-> f1,
                              resp |-> Response("update", u, 200, "", Some(db_question))]

\* mutant: the deletion is logged before the question is looked up
DeleteQuestionResult_LogsFirst(qs, al, f, t, z, u, question_id) ==
  IF ~require_editor_or_admin(u)
  THEN [qs |-> qs, al |-> al, f |-> f, resp |-> Forbidden("delete", u)]
  ELSE LET question == get_question(qs, question_id, FALSE)
           f1  == log_question_change(f, t, z, question_id, u, Username(u), "DELETE", None, None, None)
           al1 == create_audit_log(al, question_id, u, "DELETE", <<"Question deleted">>)
       IN  IF question = None
           THEN [qs |-> qs, al |-> al1, f |-> f1, resp |-> NotFound("delete", u)]
           ELSE [qs |-> soft_delete_question(qs, question_id, u).qs, al |-> al1, f |-> f1,
                 resp |-> Response("delete", u, 200, "Question deleted successfully", None)]

\* DELETE /api/questions/{question_id}
DeleteQuestionResult(qs, al, f, t, z, u, question_id) ==
  IF ~require_editor_or_admin(u)
  THEN [qs |-> qs, al |-> al, f |-> f, resp |-> Forbidden("delete", u)]
  ELSE LET question == get_question(qs, question_id, FALSE)
       IN  IF question = None
           THEN [qs |-> qs, al |-> al, f |-> f, resp |-> NotFound("delete", u)]
           ELSE LET r   == soft_delete_question(qs, question_id, u)
                    f1  == log_question_change(f, t, z, question_id, u, Username(u), "DELETE", None, None, Some(<<"Question soft deleted: ", question[1].subject, " - ", question[1].topic>>))
                    al1 == create_audit_log(al, question_id, u, "DELETE", <<"Question deleted">>)
                IN  [qs |-> r.qs, al |-> al1, f |-> f1,
                     resp |-> Response("delete", u, 200, "Question deleted successfully", None)]

\* PUT /api/questions/{question_id}/status
UpdateQuestionStatusResult(qs, al, f, t, z, u, question_id, status) ==
  IF ~require_editor_or_admin(u)
  THEN [qs |-> qs, al |-> al, f |-> f, resp |-> Forbidden("status", u)]
  ELSE LET question == get_question(qs, question_id, FALSE)
       IN  IF question = None
           THEN [qs |-> qs, al |-> al, f |-> f, resp |-> NotFound("status", u)]
           ELSE LET old_status == question[1].status
                    r   == set_question_status(qs, question_id, status, u)
                    f1  == log_question_change(f, t, z, question_id, u, Username(u), "STATUS_CHANGE", Some([status |-> old_status]), Some([status |-> status]), Some(<<"Status changed from ", old_status, " to ", status>>))
                    al1 == create_audit_log(al, question_id, u, "STATUS_CHANGE", <<"Status changed to ", status>>)
                IN  [qs |-> r.qs, al |-> al1, f |-> f1,
                     resp |-> Response("status", u, 200, "", r.row)]

\* GET /api/questions: a viewer's status filter is replaced by PROD
ReadQuestionsResponse(qs, u, skip, limit, subject, topic, difficulty, status) ==
  LET st == IF Role(u) = "viewer" THEN Some(PROD) ELSE status
  IN  Response("list", u, 200, "",
               [questions |-> get_questions(qs, skip, limit, subject, topic, difficulty, st, FALSE),
                total     |-> get_questions_count(qs, subject, topic, difficulty, st, FALSE),
                page      |-> (skip \div limit) + 1,
                size      |-> limit])

\* mutant: a viewer is refused a non-prod question instead of not finding it
ReadQuestionResponse_Forbidden(qs, u, question_id) ==
  LET question == get_question(qs, question_id, FALSE)
  IN  IF question = None
      THEN NotFound("get", u)
      ELSE IF Role(u) = "viewer" /\ question[1].status # PROD
           THEN Forbidden("get", u)
           ELSE Response("get", u, 200, "", question)

\* GET /api/questions/{question_id}
ReadQuestionResponse(qs, u, question_id) ==
  LET question == get_question(qs, question_id, FALSE)
  IN  IF question = None
      THEN NotFound("get", u)
      ELSE IF Role(u) = "viewer" /\ question[1].status # PROD
           THEN NotFound("get", u)
           ELSE Response("get", u, 200, "", question)

----------------------------------------------------------------------------
(* main.py: POST /api/questions/import *)

required_fields == <<"subject", "topic", "question", "difficulty">>

\* one error per required field the element lacks: the loop over
\* required_fields appends and goes on to the next field
RECURSIVE MissingErrors(_, _, _)
MissingErrors(i, question_data, fields) ==
  IF fields = <<>> THEN <<>>
  ELSE (IF Head(fields) \notin DOMAIN question_data
        THEN << <<i, "Missing required field", Head(fields)>> >>
        ELSE <<>>)
       \o MissingErrors(i, question_data, Tail(fields))

\* dict.get('attachment'): None when the key is absent or its value is null
GetAttachment(question_data) ==
  IF "attachment" \in DOMAIN question_data /\ question_data["attachment"].t = "str"
  THEN Some(question_data["attachment"].v)
  ELSE None

\* the body of the loop for element number i (from 1) of the list;
\* acc is [qs, f, imported_count, errors]
ImportItem(acc, i, item, u, t, z) ==
  IF item.t # "dict"
  THEN \* `field not in question_data` raises TypeError, caught per item
       [acc EXCEPT !.errors = @ \o << <<i, "TypeError", "not iterable">> >>]
  ELSE LET question_data == item.v
           missing == MissingErrors(i, question_data, required_fields)
       IN  IF missing # <<>>
           THEN \* question_data[field] raises KeyError for the first missing field
                [acc EXCEPT !.errors = @ \o missing \o << <<i, "KeyError", missing[1][3]>> >>]
           ELSE IF question_data["difficulty"] \notin DifficultyLevel
                THEN [acc EXCEPT !.errors = @ \o << <<i, "ValueError", question_data["difficulty"]>> >>]
                ELSE LET question_create ==
                           [subject             |-> question_data["subject"],
                            topic               |-> question_data["topic"],
                            question            |-> question_data["question"],
                            difficulty          |-> question_data["difficulty"],
                            attachment_filename |-> GetAttachment(question_data)]
                         qs1 == create_question(acc.qs, question_create, u)
                         db_question == qs1[Len(qs1)]
                         f1 == log_question_change(acc.f, t, z, db_question.id, u, Username(u), "IMPORT", None, Some(question_create), Some(<<"Question imported: ", question_create.subject, " - ", question_create.topic>>))
                     IN  [acc EXCEPT !.qs = qs1, !.f = f1,
                                     !.imported_count = @ + 1]

\* for i, question_data in enumerate(questions_data)
RECURSIVE ImportLoop(_, _, _, _, _, _)
ImportLoop(acc, i, questions_data, u, t, z) ==
  IF i > Len(questions_data) THEN acc
  ELSE ImportLoop(ImportItem(acc, i, questions_data[i], u, t, z), i + 1, questions_data, u, t, z)

\* the handler; file is [json_name, parses, data]
ImportQuestionsResult(qs, al, f, t, z, u, file) ==
  IF ~require_editor_or_admin(u)
  THEN [qs |-> qs, al |-> al, f |-> f, resp |-> Forbidden("import", u)]
  ELSE IF ~file.json_name
  THEN [qs |-> qs, al |-> al, f |-> f,
        resp |-> Response("import", u, 400, "File must be a JSON file", None)]
  ELSE IF ~file.parses
  THEN [qs |-> qs, al |-> al, f |-> f,
        resp |-> Response("import", u, 400, "Invalid JSON file", None)]
  ELSE IF file.data.t # "dict" \/ "questions" \notin DOMAIN file.data.v
  THEN \* the HTTPException(400) raised inside the try block is an Exception
       [qs |-> qs, al |-> al, f |-> f,
        resp |-> Response("import", u, 500, "Import failed: Invalid JSON format", None)]
  ELSE IF file.data.v["questions"].t # "list"
  THEN [qs |-> qs, al |-> al, f |-> f,
        resp |-> Response("import", u, 500, "Import failed: Questions must be an array", None)]
  ELSE LET r == ImportLoop([qs |-> qs, f |-> f, imported_count |-> 0, errors |-> <<>>],
                           1, file.data.v["questions"].v, u, t, z)
       IN  [qs |-> r.qs, al |-> al, f |-> r.f,
            resp |-> Response("import", u, 200, "",
                              Some([imported_count |-> r.imported_count,
                                    n_errors       |-> Len(r.errors),
                                    errors         |-> SubSeq(r.errors, 1, Min(5, Len(r.errors)))]))]

----------------------------------------------------------------------------
(* Requests drawn by the model *)

\* offsets of the server's zone from UTC, in ticks
TzOffsets == {-1, 0, 1}

Payload1 ==
  [subject |-> "Ab", topic |-> "a", question |-> "Q1", difficulty |-> "easy",
   attachment_filename |-> None]
Payload2 ==
  [subject |-> "b", topic |-> "B", question |-> "Q2", difficulty |-> "hard",
   attachment_filename |-> Some("f.png")]

\* POST bodies with the caller: <<user, QuestionCreate>>
CreateRequests == << <<2, Payload1>>, <<1, Payload2>>, <<3, Payload1>> >>

\* PUT bodies with the caller: <<user, the fields that were sent>>, null as None
UpdateRequests ==
  << <<2, <<>> >>,
     <<1, ("subject" :> Some("b")) @@ ("status" :> Some("prod"))>>,
     <<2, ("status" :> None) @@ ("question" :> Some("Q2")) @@ ("attachment_filename" :> None)>>,
     <<1, ("difficulty" :> Some("medium")) @@ ("attachment_filename" :> Some("g.png"))>>,
     <<2, ("topic" :> None)>>,
     <<3, <<>> >> >>

\* callers of DELETE and of PUT .../status
DeleteUsers == {1, 3}
StatusUsers == {2, 3}

\* JSON values of an uploaded document
JDict(v) == [t |-> "dict", v |-> v]
JList(v) == [t |-> "list", v |-> v]
JNum(n)  == [t |-> "num", v |-> n]
JStr(s) == [t |-> "str", v |-> s]
JNull == [t |-> "null", v |-> ""]

ValidItem1 == JDict([subject |-> "S", topic |-> "T", question |-> "Q", difficulty |-> "easy"])
ValidItem2 == JDict([subject |-> "b", topic |-> "a", question |-> "Q2", difficulty |-> "hard", attachment |-> JStr("f.png")])
BadItemS2 == JDict([subject |-> "S2"])
BadItemDifficulty == JDict([subject |-> "S", topic |-> "T", question |-> "Q", difficulty |-> "extreme"])
BadItemNum == JNum(5)

JsonFile(data) == [json_name |-> TRUE, parses |-> TRUE, data |-> data]
QuestionsFile(items) == JsonFile(JDict([questions |-> JList(items)]))

\* uploads with the caller: <<user, file>>
ImportRequests ==
  << <<2, QuestionsFile(<<ValidItem1, BadItemS2>>)>>,
     <<1, QuestionsFile(<<BadItemS2, ValidItem2, BadItemDifficulty>>)>>,
     <<2, QuestionsFile(<<BadItemNum, ValidItem2, ValidItem1>>)>>,
     <<3, QuestionsFile(<<ValidItem1>>)>> >>

\* uploads that are not a list of questions
BadImportRequests ==
  << <<2, QuestionsFile(<<>>)>>,
     <<2, [json_name |-> FALSE, parses |-> TRUE, data |-> JDict([questions |-> JList(<<>>)])]>>,
     <<1, [json_name |-> TRUE, parses |-> FALSE, data |-> JNum(0)]>>,
     <<2, JsonFile(JList(<<ValidItem1>>))>>,
     <<1, JsonFile(JDict([items |-> JList(<<ValidItem1>>)]))>>,
     <<2, JsonFile(JDict([questions |-> JDict([a |-> ValidItem1])]))>> >>

\* GET /api/questions with the caller:
\* <<user, skip, limit, subject, topic, difficulty, status>>
ListRequests ==
  << <<3, 0, 100, None, None, None, Some("devmt")>>,
     <<3, 0, 100, None, None, None, None>>,
     <<2, 0, 100, None, None, None, None>>,
     <<1, 1, 1, Some("B"), Some(""), None, Some("devmt")>> >>

\* callers of GET /api/questions/{id}
GetUsers == {2, 3}

----------------------------------------------------------------------------
(* main.py: GET /api/questions/export *)

\* limit=10000 of the export query
ExportCap == 10000

\* the JSON value of an Optional[str]
JOpt(opt) == IF opt = None THEN JNull ELSE JStr(opt[1])

\* export_data: one item per row of crud.get_questions(db, limit=10000)
export_questions(qs) ==
  LET rows == get_questions(qs, 0, ExportCap, None, None, None, None, FALSE)
  IN  JDict([questions |->
        JList([i \in 1..Len(rows) |->
          JDict([subject    |-> rows[i].subject,
                 topic      |-> rows[i].topic,
                 question   |-> rows[i].question,
                 difficulty |-> rows[i].difficulty,
                 attachment |-> JOpt(rows[i].attachment_filename)])])])

\* the handler export_questions
ExportQuestionsResult(qs, u) ==
  IF ~require_editor_or_admin(u)
  THEN Forbidden("export", u)
  ELSE Response("export", u, 200, "", Some(export_questions(qs)))

\* the GET routes of main.py with one path segment after /api/questions, in
\* the order of their declaration
SegmentRoutes ==
  << [pattern |-> "{question_id}", endpoint |-> "read_question"],
     [pattern |-> "export", endpoint |-> "export_questions"] >>

\* a path parameter matches any one segment
RouteMatches(pattern, segment) == pattern = "{question_id}" \/ pattern = segment

\* the router serves a request with the first route that matches its path
Dispatch(segment) ==
  LET i == CHOOSE i \in 1..Len(SegmentRoutes) :
             /\ RouteMatches(SegmentRoutes[i].pattern, segment)
             /\ \A j \in 1..(i - 1) : ~RouteMatches(SegmentRoutes[j].pattern, segment)
  IN  SegmentRoutes[i].endpoint

\* GET /api/questions/export as the application answers it: when the route of
\* read_question is the one that matches, "export" is not an int and the
\* request is refused with 422
GetExportResponse(qs, u) ==
  IF Dispatch("export") = "export_questions"
  THEN ExportQuestionsResult(qs, u)
  ELSE Response("export", u, 422, "question_id: value is not a valid integer", None)

\* callers of GET /api/questions/export
ExportUsers == {1, 2}

----------------------------------------------------------------------------
(* The handlers as actions *)

NoRequest == [op |-> "none"]

\* an empty upload directory, no uuid drawn yet
NoUploads == [dir |-> <<>>, issued |-> 0]

\* no request in progress
NoSessions == <<>>

Init ==
  /\ questions = <<>>
  /\ audit_logs = <<>>
  /\ files = <<>>
  /\ now = DayLen
  /\ tz = 0
  /\ req = NoRequest
  /\ resp = Response("none", 0, 0, "", None)
  /\ uploads = NoUploads
  /\ sessions = NoSessions

\* a handler's result becomes the state, within the bounds of the model
Serve(request, r) ==
  /\ Len(r.qs) <= MaxQuestions
  /\ TrailCount(r.f, DOMAIN r.f) <= MaxOps
  /\ questions' = r.qs
  /\ audit_logs' = r.al
  /\ files' = r.f
  /\ req' = request
  /\ resp' = r.resp
  /\ UNCHANGED <<now, tz, uploads, sessions>>

\* ids a request may name: the rows of the table and one id past them
Ids == 1..(Len(questions) + 1)

\* requests that are turned away alike are drawn once: a caller the role gate
\* refuses names id 1, and a request for an id that is not found is the first
\* of its kind
DrawnOnce(u, id, first) ==
  /\ ~require_editor_or_admin(u) => id = 1
  /\ (require_editor_or_admin(u) /\ get_question(questions, id, FALSE) = None) => first

CreateQuestion ==
  \E i \in 1..Len(CreateRequests) :
    LET u == CreateRequests[i][1]
        q == CreateRequests[i][2]
    IN  Serve([op |-> "create", user |-> u, question |-> q],
              CreateQuestionResult(questions, audit_logs, files, now, tz, u, q))

UpdateQuestion ==
  \E i \in 1..Len(UpdateRequests), id \in Ids :
    LET u == UpdateRequests[i][1]
        p == UpdateRequests[i][2]
    IN  /\ DrawnOnce(u, id, i = 1)
        /\ Serve([op |-> "update", user |-> u, question_id |-> id, question_update |-> p],
                 UpdateQuestionResult(questions, audit_logs, files, now, tz, u, id, p))

DeleteQuestion ==
  \E u \in DeleteUsers, id \in Ids :
    /\ DrawnOnce(u, id, TRUE)
    /\ Serve([op |-> "delete", user |-> u, question_id |-> id],
             DeleteQuestionResult(questions, audit_logs, files, now, tz, u, id))

UpdateQuestionStatus ==
  \E u \in StatusUsers, id \in Ids, status \in QuestionStatus :
    /\ DrawnOnce(u, id, status = PROD)
    /\ (~require_editor_or_admin(u)) => status = PROD
    /\ Serve([op |-> "status", user |-> u, question_id |-> id, status |-> status],
             UpdateQuestionStatusResult(questions, audit_logs, files, now, tz, u, id, status))

\* POST /api/questions/import with one of the given uploads
ImportFrom(requests) ==
  \E i \in 1..Len(requests) :
    LET u == requests[i][1]
        file == requests[i][2]
    IN  Serve([op |-> "import", user |-> u, file |-> file],
              ImportQuestionsResult(questions, audit_logs, files, now, tz, u, file))

ImportQuestions == ImportFrom(ImportRequests)

ImportBadDocument == ImportFrom(BadImportRequests)

ReadQuestions ==
  \E i \in 1..Len(ListRequests) :
    LET q == ListRequests[i]
    IN  /\ req' = [op |-> "list", user |-> q[1], query |-> q]
        /\ resp' = ReadQuestionsResponse(questions, q[1], q[2], q[3], q[4], q[5], q[6], q[7])
        /\ UNCHANGED <<questions, audit_logs, files, now, tz, uploads, sessions>>

ReadQuestion ==
  \E u \in GetUsers, id \in Ids :
    /\ req' = [op |-> "get", user |-> u, question_id |-> id]
    /\ resp' = ReadQuestionResponse(questions, u, id)
    /\ UNCHANGED <<questions, audit_logs, files, now, tz, uploads, sessions>>

ExportQuestions ==
  \E u \in ExportUsers :
    /\ req' = [op |-> "export", user |-> u]
    /\ resp' = GetExportResponse(questions, u)
    /\ UNCHANGED <<questions, audit_logs, files, now, tz, uploads, sessions>>

Next ==
  \/ ExportQuestions
  \/ CreateQuestion
  \/ UpdateQuestion
  \/ DeleteQuestion
  \/ UpdateQuestionStatus
  \/ ImportQuestions
  \/ ReadQuestions
  \/ ReadQuestion

Spec == Init /\ [][Next]_vars

\* the import endpoint with every kind of upload, beside create and delete
ImportNext ==
  \/ ImportQuestions
  \/ ImportBadDocument
  \/ CreateQuestion
  \/ DeleteQuestion

ImportSpec == Init /\ [][ImportNext]_vars

----------------------------------------------------------------------------
(* audit_logger.py on its own: AuditSpec *)

\* calls of log_question_change:
\* <<question_id, user_id, action, old_data, new_data, summary>>
LogRequests ==
  << <<1, 2, "STATUS_CHANGE", Some([status |-> "prod"]), Some([status |-> "devmt"]), None>>,
     <<2, 1, "DELETE", None, None, Some(<<"Question soft deleted: ", "b", " - ", "B">>)>> >>

AuditInit ==
  /\ questions = <<>>
  /\ audit_logs = <<>>
  /\ files = <<>>
  /\ now = DayLen
  /\ tz \in TzOffsets
  /\ req = NoRequest
  /\ resp = Response("none", 0, 0, "", None)
  /\ uploads = NoUploads
  /\ sessions = NoSessions

\* the clock advances
Tick ==
  /\ now < MaxNow
  /\ now' = now + 1
  /\ req' = [op |-> "tick"]
  /\ resp' = Response("tick", 0, 0, "", None)
  /\ UNCHANGED <<questions, audit_logs, files, tz, uploads, sessions>>

\* a call of log_question_change
LogQuestionChange ==
  \E i \in 1..Len(LogRequests) :
    LET a == LogRequests[i]
    IN  /\ TrailCount(files, DOMAIN files) < MaxLines
        /\ files' = log_question_change(files, now, tz, a[1], a[2], Username(a[2]), a[3], a[4], a[5], a[6])
        /\ req' = [op |-> "log", args |-> a]
        /\ resp' = Response("log", a[2], 200, "", None)
        /\ UNCHANGED <<questions, audit_logs, now, tz, uploads, sessions>>

\* a line that is not JSON ends up in today's file (a torn or foreign write)
WriteBadLine ==
  /\ TrailCount(files, DOMAIN files) < MaxLines
  /\ files' = AppendLine(files, get_audit_filename(now, tz), BadLine)
  /\ req' = [op |-> "badline"]
  /\ resp' = Response("badline", 0, 0, "", None)
  /\ UNCHANGED <<questions, audit_logs, now, tz, uploads, sessions>>

\* a call of get_question_audit_history
GetQuestionAuditHistory ==
  \E question_id \in 1..2, days_back \in 0..MaxDaysBack :
    /\ req' = [op |-> "history", question_id |-> question_id, days_back |-> days_back]
    /\ resp' = Response("history", 2, 200, "",
                        get_question_audit_history(files, now, tz, question_id, days_back))
    /\ UNCHANGED <<questions, audit_logs, files, now, tz, uploads, sessions>>

AuditNext ==
  \/ Tick
  \/ LogQuestionChange
  \/ WriteBadLine
  \/ GetQuestionAuditHistory

AuditSpec == AuditInit /\ [][AuditNext]_vars

----------------------------------------------------------------------------
(* log_question_change on arbitrary snapshots: DiffSpec *)

DictKeys == {"a", "b", "c"}
DictValues == 1..MaxVal

\* every dict over the keys, the empty one included
Dicts == UNION {[ks -> DictValues] : ks \in SUBSET DictKeys}

\* an Optional[dict] argument
OptDicts == {None} \cup {Some(d) : d \in Dicts}

DiffInit ==
  /\ questions = <<>>
  /\ audit_logs = <<>>
  /\ files = <<>>
  /\ now = DayLen
  /\ tz = 0
  /\ req \in [op : {"pending"}, old_data : OptDicts, new_data : OptDicts]
  /\ resp = Response("none", 0, 0, "", None)
  /\ uploads = NoUploads
  /\ sessions = NoSessions

\* the pending call log_question_change(1, 2, "editor", "UPDATE", old_data, new_data)
LogSnapshots ==
  /\ req.op = "pending"
  /\ files' = log_question_change(files, now, tz, 1, 2, Username(2), "UPDATE", req.old_data, req.new_data, None)
  /\ req' = [req EXCEPT !.op = "log"]
  /\ resp' = Response("log", 2, 200, "", None)
  /\ UNCHANGED <<questions, audit_logs, now, tz, uploads, sessions>>

DiffNext == LogSnapshots

DiffSpec == DiffInit /\ [][DiffNext]_vars

----------------------------------------------------------------------------
(* file_handler.py: FileSpec *)

\* os.path.splitext(name)[1] of the file names the model draws
SplitExt(name) ==
  CASE name = "photo.PNG" -> ".PNG"
    [] name = "a.b.gif"   -> ".gif"
    [] name = "notes"     -> ""
    [] OTHER              -> ""

\* bool(s) of an Optional[str]: None and "" are falsy
TruthyStr(opt) == opt # None /\ opt[1] # ""

\* uuid.uuid4(): a value that was not drawn before
uuid4(store) == store.issued + 1

\* mutant: the stored name is the extension alone, without the uuid
StoredPath_NoUuid(uuid, file_extension) == <<0, file_extension>>

\* os.path.join(UPLOAD_DIR, f"{uuid.uuid4()}{file_extension}")
StoredPath(uuid, file_extension) == <<uuid, file_extension>>

\* the directory with the file at path holding content
PutFile(dir, path, content) ==
  [p \in DOMAIN dir \cup {path} |-> IF p = path THEN content ELSE dir[p]]

\* os.remove(path)
RemoveFile(dir, path) == [p \in DOMAIN dir \ {path} |-> dir[p]]

\* what is left of a file whose copy broke off
Partial == 0

\* the ways open() and shutil.copyfileobj can end
WriteOutcomes == {"written", "open fails", "copy fails"}

\* save_uploaded_file: [store, file_path, code, returned]; code 500 is the
\* HTTPException raised after the clean-up
save_uploaded_file(store, file, original_filename, outcome) ==
  LET file_extension ==
        IF TruthyStr(original_filename) THEN SplitExt(original_filename[1])
        ELSE IF TruthyStr(file.filename) THEN SplitExt(file.filename[1])
        ELSE ""
      uuid      == uuid4(store)
      file_path == StoredPath(uuid, file_extension)
      drawn     == [store EXCEPT !.issued = uuid]
  IN  IF outcome = "written"
      THEN [store |-> [drawn EXCEPT !.dir = PutFile(@, file_path, file.content),
                                    !.returned = @ \cup {file_path}],
            file_path |-> file_path, code |-> 200, returned |-> Some(file_path)]
      ELSE LET broken == IF outcome = "copy fails"
                         THEN PutFile(drawn.dir, file_path, Partial)
                         ELSE drawn.dir
               cleaned == IF file_path \in DOMAIN broken
                          THEN RemoveFile(broken, file_path)
                          ELSE broken
           IN  [store |-> [drawn EXCEPT !.dir = cleaned],
                file_path |-> file_path, code |-> 500, returned |-> None]

\* delete_file: [store, result]; remove_ok is whether os.remove succeeds
delete_file(store, file_path, remove_ok) ==
  IF file_path \in DOMAIN store.dir /\ remove_ok
  THEN [store |-> [store EXCEPT !.dir = RemoveFile(@, file_path)], result |-> TRUE]
  ELSE [store |-> store, result |-> FALSE]

\* uploads: <<file, original_filename>>
UploadRequests ==
  << <<[filename |-> Some("photo.PNG"), content |-> 1], Some("photo.PNG")>>,
     <<[filename |-> Some("photo.PNG"), content |-> 2], Some("photo.PNG")>>,
     <<[filename |-> Some("a.b.gif"), content |-> 1], None>>,
     <<[filename |-> None, content |-> 2], Some("")>> >>

\* a path at which no file was ever stored
MissingPath == <<0, ".png">>

FileInit ==
  /\ questions = <<>>
  /\ audit_logs = <<>>
  /\ files = <<>>
  /\ now = DayLen
  /\ tz = 0
  /\ req = NoRequest
  /\ resp = NoRequest
  /\ uploads = [dir |-> <<>>, issued |-> 0, returned |-> {}]
  /\ sessions = NoSessions

SaveUploadedFile ==
  \E i \in 1..Len(UploadRequests), outcome \in WriteOutcomes :
    LET file == UploadRequests[i][1]
        original_filename == UploadRequests[i][2]
        r == save_uploaded_file(uploads, file, original_filename, outcome)
    IN  /\ uploads.issued < MaxUploads
        /\ uploads' = r.store
        /\ req' = [op |-> "save", file |-> file,
                   original_filename |-> original_filename, outcome |-> outcome]
        /\ resp' = [op |-> "save", code |-> r.code, file_path |-> r.file_path,
                    returned |-> r.returned]
        /\ UNCHANGED <<questions, audit_logs, files, now, tz, sessions>>

DeleteFile ==
  \E file_path \in DOMAIN uploads.dir \cup {MissingPath}, remove_ok \in BOOLEAN :
    LET r == delete_file(uploads, file_path, remove_ok)
    IN  /\ uploads' = r.store
        /\ req' = [op |-> "delete_file", file_path |-> file_path, remove_ok |-> remove_ok]
        /\ resp' = [op |-> "delete_file", raised |-> FALSE, result |-> r.result]
        /\ UNCHANGED <<questions, audit_logs, files, now, tz, sessions>>

FileNext ==
  \/ SaveUploadedFile
  \/ DeleteFile

FileSpec == FileInit /\ [][FileNext]_vars

----------------------------------------------------------------------------
(* Two requests on question 1 in progress at once: RaceSpec *)
(* Each request has its own database session.  A handler reads the row     *)
(* (its existence check), the crud function selects it again, assigns and  *)
(* commits, refreshes it, and the handler writes the audit records.  Each  *)
(* of these statements is one step; steps of the two requests interleave.  *)

Workers == {1, 2}

\* the question the two requests name
RaceId == 1

RaceRequest(op, u, status, question_update) ==
  [op |-> op, user |-> u, status |-> status, question_update |-> question_update]

\* the requests the workers draw from: status and question_update are read
\* by the status-set and by the update only
RaceRequests ==
  { RaceRequest("status", 2, "prod", <<>>),
    RaceRequest("status", 1, "devmt", <<>>),
    RaceRequest("delete", 1, "", <<>>),
    RaceRequest("delete", 2, "", <<>>),
    RaceRequest("update", 2, "", ("subject" :> Some("b")) @@ ("status" :> Some("prod"))),
    RaceRequest("update", 1, "", ("subject" :> Some("S")) @@ ("attachment_filename" :> Some("g.png"))) }

\* a request that has not started
NewSession(request) ==
  [request |-> request, pc |-> "check", loaded |-> None, db_question |-> None,
   order |-> 0, code |-> 0]

\* the attributes of the session's object after the assignments of the crud
\* function; loaded holds the attributes as the session read them
AssignedObject(request, loaded) ==
  CASE request.op = "status" ->
         [loaded EXCEPT !.status = request.status, !.updated_by = Some(request.user)]
    [] request.op = "delete" ->
         [loaded EXCEPT !.is_deleted = TRUE, !.updated_by = Some(request.user)]
    [] request.op = "update" ->
         ApplyUpdate(loaded, WithEditStatus(request.question_update), request.user)

\* db.commit(): the session flushes an UPDATE of the columns whose value is
\* not the one it loaded, WHERE id is the primary key
Flush(row, loaded, obj) ==
  [k \in DOMAIN row |-> IF obj[k] # loaded[k] THEN obj[k] ELSE row[k]]

\* the table behind the race: question 1 as the editor created it
RaceStart == CreateQuestionResult(<<>>, <<>>, <<>>, DayLen, 0, 2, Payload1)

RaceInit ==
  /\ questions = RaceStart.qs
  /\ audit_logs = RaceStart.al
  /\ files = RaceStart.f
  /\ now = DayLen
  /\ tz = 0
  /\ req = NoRequest
  /\ resp = NoRequest
  /\ uploads = NoUploads
  /\ sessions \in [Workers -> {NewSession(r) : r \in RaceRequests}]

\* the handler's crud.get_question: 404 when the row is missing or deleted
Check(w) ==
  LET found == get_question(questions, RaceId, FALSE)
  IN  /\ sessions[w].pc = "check"
      /\ sessions' = [sessions EXCEPT ![w] =
           IF found = None
           THEN [@ EXCEPT !.pc = "done", !.code = 404]
           ELSE [@ EXCEPT !.pc = "select", !.loaded = found]]
      /\ UNCHANGED <<questions, audit_logs, files, now, tz, req, resp, uploads>>

\* get_question inside the crud function: the query runs again; a row that
\* is found is the object the session already holds
Select(w) ==
  LET found == get_question(questions, RaceId, FALSE)
  IN  /\ sessions[w].pc = "select"
      /\ sessions' = [sessions EXCEPT ![w] =
           IF found = None
           THEN [@ EXCEPT !.pc = "finish", !.db_question = None]
           ELSE [@ EXCEPT !.pc = "commit"]]
      /\ UNCHANGED <<questions, audit_logs, files, now, tz, req, resp, uploads>>

\* the assignments and db.commit()
Commit(w) ==
  LET loaded == sessions[w].loaded[1]
      obj    == AssignedObject(sessions[w].request, loaded)
  IN  /\ sessions[w].pc = "commit"
      /\ questions' = [questions EXCEPT ![RaceId] = Flush(@, loaded, obj)]
      /\ sessions' = [sessions EXCEPT ![w] =
           [@ EXCEPT !.pc = "refresh",
                     !.order = 1 + Cardinality({v \in Workers : sessions[v].order > 0})]]
      /\ UNCHANGED <<audit_logs, files, now, tz, req, resp, uploads>>

\* db.refresh(db_question): the row is read again by primary key
Refresh(w) ==
  /\ sessions[w].pc = "refresh"
  /\ sessions' = [sessions EXCEPT ![w] =
       [@ EXCEPT !.pc = "finish", !.db_question = Some(questions[RaceId])]]
  /\ UNCHANGED <<questions, audit_logs, files, now, tz, req, resp, uploads>>

\* the rest of the handler: the audit records and the response.  The update
\* handler reads db_question.subject, which raises when the crud function
\* returned None; the status handler returns None to a response model that
\* requires a question; the delete handler does not look at the result, and
\* its question is the session's object, re-read when the crud function
\* committed
Finish(w) ==
  LET me          == sessions[w]
      u           == me.request.user
      original    == me.loaded[1]
      db_question == me.db_question
      question    == IF db_question = None THEN original ELSE db_question[1]
      al1(action, summary) == create_audit_log(audit_logs, RaceId, u, action, summary)
      done(code)  == [sessions EXCEPT ![w] = [@ EXCEPT !.pc = "done", !.code = code]]
  IN  /\ me.pc = "finish"
      /\ CASE me.request.op = "update" /\ db_question = None ->
                /\ sessions' = done(500)
                /\ UNCHANGED <<audit_logs, files>>
            [] me.request.op = "update" /\ db_question # None ->
                /\ files' = log_question_change(files, now, tz, db_question[1].id, u, Username(u), "UPDATE", Some(Snapshot(original)), Some(Snapshot(db_question[1])), Some(<<"Question updated: ", db_question[1].subject, " - ", db_question[1].topic>>))
                /\ audit_logs' = al1("UPDATE", <<"Question updated">>)
                /\ sessions' = done(200)
            [] me.request.op = "status" ->
                /\ files' = log_question_change(files, now, tz, RaceId, u, Username(u), "STATUS_CHANGE", Some([status |-> original.status]), Some([status |-> me.request.status]), Some(<<"Status changed from ", original.status, " to ", me.request.status>>))
                /\ audit_logs' = al1("STATUS_CHANGE", <<"Status changed to ", me.request.status>>)
                /\ sessions' = done(IF db_question = None THEN 500 ELSE 200)
            [] me.request.op = "delete" ->
                /\ files' = log_question_change(files, now, tz, RaceId, u, Username(u), "DELETE", None, None, Some(<<"Question soft deleted: ", question.subject, " - ", question.topic>>))
                /\ audit_logs' = al1("DELETE", <<"Question deleted">>)
                /\ sessions' = done(200)
      /\ UNCHANGED <<questions, now, tz, req, resp, uploads>>

RaceNext ==
  \E w \in Workers :
    \/ Check(w)
    \/ Select(w)
    \/ Commit(w)
    \/ Refresh(w)
    \/ Finish(w)

RaceSpec == RaceInit /\ [][RaceNext]_vars

----------------------------------------------------------------------------
(* Claims on the handlers (Spec) *)

\* the entry of the line written last to today's audit file
LastEntry ==
  LET lines == files[get_audit_filename(now, tz)]
  IN  lines[Len(lines)].entry

\* the request was an update whose body had no status, or a null one
OmitsStatus ==
  /\ req.op = "update"
  /\ ("status" \notin DOMAIN req.question_update \/ req.question_update["status"] = None)

\* the rows the last request created are the newest of the table
CreatedRows ==
  IF req.op = "create" /\ resp.code = 200 THEN {Len(questions)}
  ELSE IF req.op = "import" /\ resp.code = 200
       THEN (Len(questions) - resp.body[1].imported_count + 1)..Len(questions)
       ELSE {}

\* Restricted to the requests the handlers answer with 200, the statement of C1
\* holds: a question just created by the create or the import endpoint has
\* status "prod", and an update with no status in its body that succeeds leaves
\* the question with status "devmt"
SucceededEditIsDevmt ==
  /\ \A id \in CreatedRows : questions[id].status = PROD
  /\ (OmitsStatus /\ resp.code = 200) => questions[req.question_id].status = DEVMT

\* an editor's update without status succeeded on a question that was "prod",
\* and the question is now "devmt"
SucceededEditSeen ==
  /\ OmitsStatus
  /\ resp.code = 200
  /\ LastEntry.action = "UPDATE"
  /\ LastEntry.changes # None
  /\ "status" \in DOMAIN LastEntry.changes[1]
  /\ LastEntry.changes[1]["status"] = [old |-> "prod", new |-> "devmt"]
  /\ questions[req.question_id].status = DEVMT

\* C1: every question created through the create or the import endpoint has
\* status "prod" right after creation, and every update by a permitted caller
\* on an existing non-deleted question whose body omits status leaves the
\* question with status "devmt", whatever its status was before
C1_CreatedProdEditedDevmt ==
  /\ \A id \in CreatedRows : questions[id].status = PROD
  /\ (/\ OmitsStatus
      /\ require_editor_or_admin(req.user)
      /\ get_question(questions, req.question_id, FALSE) # None)
     => questions[req.question_id].status = DEVMT

\* filters a listing may be asked with
FilterSubjects == {None, Some("B")}
FilterTopics == {Some(""), Some("a")}
FilterDifficulties == {None, Some("hard")}
FilterStatuses == {None} \cup {Some(st) : st \in QuestionStatus}
\* pages a listing may be asked for: <<skip, limit>>
Pages == {<<1, 1>>, <<0, 100>>}

\* the rows of a sequence, as a set
Range(seq) == {seq[i] : i \in 1..Len(seq)}

\* C2: with include_deleted=false get_questions returns and get_questions_count
\* counts no soft-deleted question; with include_deleted=true a soft-deleted
\* question that matches the filters is returned; and the count with
\* include_deleted=true is at least the count without, for the same filters
C2_SoftDeletedHidden ==
  \A subject \in FilterSubjects, topic \in FilterTopics,
     difficulty \in FilterDifficulties, status \in FilterStatuses :
    LET shown   == get_questions(questions, 0, Len(questions), subject, topic, difficulty, status, FALSE)
        withDel == get_questions(questions, 0, Len(questions), subject, topic, difficulty, status, TRUE)
        live    == {id \in DOMAIN questions :
                      /\ ~questions[id].is_deleted
                      /\ MatchesFilters(questions[id], subject, topic, difficulty, status, TRUE)}
    IN  /\ \A page \in Pages :
             \A row \in Range(get_questions(questions, page[1], page[2], subject, topic, difficulty, status, FALSE)) :
               ~row.is_deleted
        /\ get_questions_count(questions, subject, topic, difficulty, status, FALSE) = Cardinality(live)
        /\ \A id \in DOMAIN questions :
             MatchesFilters(questions[id], subject, topic, difficulty, status, TRUE)
               => questions[id] \in Range(withDel)
        /\ Range(shown) \subseteq Range(withDel)
        /\ get_questions_count(questions, subject, topic, difficulty, status, TRUE)
             >= get_questions_count(questions, subject, topic, difficulty, status, FALSE)

\* C2 witness: after a soft delete, an unfiltered listing was served without
\* the deleted question, which include_deleted=true still returns
C2_Witness ==
  /\ req.op = "list"
  /\ req.query[4] = None /\ req.query[7] = None
  /\ Role(req.user) # "viewer"
  /\ \E id \in DOMAIN questions :
       /\ questions[id].is_deleted
       /\ questions[id] \notin Range(resp.body.questions)
       /\ questions[id] \in Range(get_questions(questions, 0, 100, None, None, None, None, TRUE))
  /\ get_questions_count(questions, None, None, None, None, TRUE) > resp.body.total

\* C3: a viewer's listing holds only "prod" questions, its items and total being
\* those of the status filter "prod" whatever status was asked; a viewer asking
\* for a question that is not "prod" gets the 404 response of a missing id, and
\* never a 403
C3_ViewerSeesOnlyProd ==
  /\ \A subject \in FilterSubjects, topic \in FilterTopics,
        difficulty \in FilterDifficulties, status \in FilterStatuses, page \in Pages :
       LET r == ReadQuestionsResponse(questions, 3, page[1], page[2], subject, topic, difficulty, status)
       IN  /\ r.code = 200
           /\ \A row \in Range(r.body.questions) : row.status = PROD
           /\ r.body.questions = get_questions(questions, page[1], page[2], subject, topic, difficulty, Some(PROD), FALSE)
           /\ r.body.total = get_questions_count(questions, subject, topic, difficulty, Some(PROD), FALSE)
  /\ \A id \in 1..(Len(questions) + 1) :
       LET r == ReadQuestionResponse(questions, 3, id)
       IN  /\ r.code # 403
           /\ r.code = 200 => r.body[1].status = PROD
           /\ (id \in DOMAIN questions /\ questions[id].status # PROD)
                => r = ReadQuestionResponse(questions, 3, Len(questions) + 1)
  /\ (resp.op \in {"list", "get"} /\ Role(resp.user) = "viewer")
       => /\ resp.code \in {200, 404}
          /\ (resp.op = "list") => \A row \in Range(resp.body.questions) : row.status = PROD
          /\ (resp.op = "get" /\ resp.code = 200) => resp.body[1].status = PROD

\* C3 witness: a viewer asked for an existing, non-deleted "devmt" question and
\* was answered 404, as for an id that does not exist
C3_Witness ==
  /\ req.op = "get"
  /\ Role(req.user) = "viewer"
  /\ req.question_id \in DOMAIN questions
  /\ ~questions[req.question_id].is_deleted
  /\ questions[req.question_id].status = DEVMT
  /\ resp = NotFound("get", req.user)
  /\ ReadQuestionResponse(questions, 2, req.question_id).code = 200

\* lines of the audit files that are entries of one question
FileEntriesFor(id) ==
  Cardinality({p \in {<<d, i>> : d \in DOMAIN files, i \in 1..MaxOps} :
                 /\ p[2] <= Len(files[p[1]])
                 /\ files[p[1]][p[2]].ok
                 /\ files[p[1]][p[2]].entry.question_id = id})

\* rows of audit_logs of one question
AuditRowsFor(id) ==
  Cardinality({i \in DOMAIN audit_logs : audit_logs[i].question_id = id})

\* C4: every question has as many file-trail entries as relational audit rows,
\* one of each for every successful mutating request on it, its creation (by
\* the create endpoint or by import) included
C4_OneEntryInEachSink ==
  \A id \in DOMAIN questions :
    /\ FileEntriesFor(id) = AuditRowsFor(id)
    /\ AuditRowsFor(id) >= 1

\* an element of "questions" that carries the required fields and a difficulty
\* of the enumeration
ValidElement(item) ==
  /\ item.t = "dict"
  /\ {"subject", "topic", "question", "difficulty"} \subseteq DOMAIN item.v
  /\ item.v["difficulty"] \in DifficultyLevel

\* C5: an import that is served reports as many imported questions as the list
\* has valid elements, and one error for each element that is not valid
C5_OneErrorPerBadElement ==
  (req.op = "import" /\ resp.code = 200) =>
    LET items == req.file.data.v["questions"].v
        valid == {i \in 1..Len(items) : ValidElement(items[i])}
    IN  /\ resp.body[1].imported_count = Cardinality(valid)
        /\ resp.body[1].n_errors = Len(items) - Cardinality(valid)

\* the uploaded JSON document is not an object holding a list under "questions"
BadDocument(file) ==
  /\ file.json_name
  /\ file.parses
  /\ \/ file.data.t # "dict"
     \/ "questions" \notin DOMAIN file.data.v
     \/ file.data.v["questions"].t # "list"

\* C6: an import of a document that is not an object with a list under
\* "questions" is answered 400
C6_BadDocumentIs400 ==
  (req.op = "import" /\ require_editor_or_admin(req.user) /\ BadDocument(req.file))
    => resp.code = 400

----------------------------------------------------------------------------
(* Claims on audit_logger.py (DiffSpec, AuditSpec) *)

\* the snapshots of the call that was logged are both given and not empty
NonEmptySnapshots ==
  /\ req.op = "log"
  /\ req.old_data # None /\ DOMAIN req.old_data[1] # {}
  /\ req.new_data # None /\ DOMAIN req.new_data[1] # {}

\* C7: for non-empty snapshots the recorded change set holds exactly the keys
\* present in both snapshots whose values differ, each mapped to its old and
\* new value; old={a:1,b:2}, new={a:1,b:3,c:4} gives exactly {b:{old:2,new:3}}
C7_DiffIsChangedSharedKeys ==
  NonEmptySnapshots =>
    LET old_data == req.old_data[1]
        new_data == req.new_data[1]
        changes  == LastEntry.changes
    IN  /\ changes # None
        /\ DOMAIN changes[1] =
             {k \in DictKeys : /\ k \in DOMAIN new_data
                               /\ k \in DOMAIN old_data
                               /\ old_data[k] # new_data[k]}
        /\ \A k \in DOMAIN changes[1] :
             changes[1][k] = [old |-> old_data[k], new |-> new_data[k]]
        /\ (old_data = [a |-> 1, b |-> 2] /\ new_data = [a |-> 1, b |-> 3, c |-> 4])
             => changes[1] = [b |-> [old |-> 2, new |-> 3]]

\* C7 witness: the call with old={a:1,b:2}, new={a:1,b:3,c:4} was logged with
\* the change set {b:{old:2,new:3}}
C7_Witness ==
  /\ req.op = "log"
  /\ req.old_data = Some([a |-> 1, b |-> 2])
  /\ req.new_data = Some([a |-> 1, b |-> 3, c |-> 4])
  /\ LastEntry.changes = Some([b |-> [old |-> 2, new |-> 3]])
  /\ LastEntry.data = None

\* C8: an entry written with both snapshots supplied, empty ones included,
\* carries "changes" and no "data"; written with only a new snapshot it carries
\* "data" equal to the snapshot and no "changes"; written with neither it
\* carries neither
C8_FieldsFollowSuppliedSnapshots ==
  (req.op = "log") =>
    /\ (req.old_data # None /\ req.new_data # None)
         => (LastEntry.changes # None /\ LastEntry.data = None)
    /\ (req.old_data = None /\ req.new_data # None)
         => (LastEntry.data = req.new_data /\ LastEntry.changes = None)
    /\ (req.old_data = None /\ req.new_data = None)
         => (LastEntry.changes = None /\ LastEntry.data = None)

\* the places <<day, line number>> of the parseable entries of one question in
\* the files of the last days_back days
HistoryPlaces(question_id, days_back) ==
  LET today  == LocalDay(now, tz)
      window == {today - i : i \in 0..(days_back - 1)} \cap DOMAIN files
  IN  {p \in {<<d, i>> : d \in window, i \in 1..MaxLines} :
         /\ p[2] <= Len(files[p[1]])
         /\ files[p[1]][p[2]].ok
         /\ files[p[1]][p[2]].entry.question_id = question_id}

EntryAt(p) == files[p[1]][p[2]].entry

\* C9: the history returned holds exactly the parseable entries of the queried
\* question in the files of today back to today-(days_back-1), each as often
\* as it was written, in descending order of timestamp; unparseable lines are
\* skipped and the call does not fail
C9_HistoryIsWindowSortedDesc ==
  (req.op = "history") =>
    LET h      == resp.body
        places == HistoryPlaces(req.question_id, req.days_back)
    IN  /\ resp.code = 200
        /\ Len(h) = Cardinality(places)
        /\ \A p \in places :
             Cardinality({i \in 1..Len(h) : h[i] = EntryAt(p)})
               = Cardinality({q \in places : EntryAt(q) = EntryAt(p)})
        /\ \A i \in 1..Len(h) : h[i].question_id = req.question_id
        /\ \A i \in 1..Len(h), j \in 1..Len(h) :
             i < j => h[i].timestamp >= h[j].timestamp

\* C9 witness: a history of two entries written on different days, the newer
\* first, from a directory that also holds an unparseable line in the window
C9_Witness ==
  /\ req.op = "history"
  /\ Len(resp.body) = 2
  /\ resp.body[1].timestamp > resp.body[2].timestamp
  /\ LocalDay(resp.body[1].timestamp, tz) # LocalDay(resp.body[2].timestamp, tz)
  /\ \E d \in DOMAIN files :
       /\ LocalDay(now, tz) - d < req.days_back
       /\ \E i \in 1..Len(files[d]) : ~files[d][i].ok

\* C10: every entry lies in the file named for the UTC day of its timestamp
C10_FileNamedForUtcDay ==
  \A d \in DOMAIN files :
    \A i \in 1..Len(files[d]) :
      files[d][i].ok => UtcDay(files[d][i].entry.timestamp) = d

----------------------------------------------------------------------------
(* Claims on export and import (Spec) *)

\* the rows that are not soft-deleted, in primary-key order
LiveRows(qs) == SelectSeq(qs, LAMBDA row : ~row.is_deleted)

\* importing the document into the table qs creates one question for each row
\* of qs that is not soft-deleted, with the row's subject, topic, question,
\* difficulty and attachment, and reports no error
RoundTrips(qs, doc, u) ==
  LET items == doc.v["questions"].v
      r     == ImportQuestionsResult(qs, audit_logs, files, now, tz, u, JsonFile(doc))
  IN  /\ Len(items) = Len(LiveRows(qs))
      /\ r.resp.code = 200
      /\ r.resp.body[1].imported_count = Len(items)
      /\ r.resp.body[1].n_errors = 0
      /\ Len(r.qs) = Len(qs) + Len(items)
      /\ \A i \in 1..Len(items) :
           LET new == r.qs[Len(qs) + i]
               old == LiveRows(qs)[i]
           IN  /\ new.subject = old.subject
               /\ new.topic = old.topic
               /\ new.question = old.question
               /\ new.difficulty = old.difficulty
               /\ new.attachment_filename = old.attachment_filename

\* C11: an export by a permitted caller produces a document with one item for
\* each question that is not soft-deleted, and importing that document creates
\* one new question per item with equal subject, topic, question, difficulty
\* and attachment, with no per-item error
C11_ExportImportRoundTrip ==
  (req.op = "export" /\ require_editor_or_admin(req.user)) =>
    /\ resp.code = 200
    /\ resp.body # None
    /\ RoundTrips(questions, resp.body[1], req.user)

\* The handler export_questions, were it the one to serve the request, would
\* produce a document that round-trips: on the table as it is, and on the
\* table with any one of its rows soft-deleted
ExportHandlerRoundTrips ==
  /\ RoundTrips(questions, export_questions(questions), 2)
  /\ \A id \in DOMAIN questions :
       LET qs == soft_delete_question(questions, id, 1).qs
       IN  RoundTrips(qs, export_questions(qs), 2)

\* a table of two live rows, one of them with an attachment
ExportHandlerSeen ==
  /\ Len(LiveRows(questions)) = 2
  /\ \E id \in DOMAIN questions : questions[id].attachment_filename # None

----------------------------------------------------------------------------
(* Claims on the effect of single requests (Spec) *)

\* the request just served named a question that is missing or soft-deleted,
\* and came from a caller the endpoint admits
NamesNoQuestion(request, qs) ==
  /\ request.op \in {"update", "status", "delete", "get"}
  /\ (request.op # "get") => require_editor_or_admin(request.user)
  /\ \/ request.question_id \notin DOMAIN qs
     \/ qs[request.question_id].is_deleted

\* C12: an update, status-change, soft-delete or get-by-id request for an id
\* that is missing or soft-deleted is answered 404 and leaves every question,
\* every audit row and every file-trail entry as it was
C12_NotFoundChangesNothing ==
  [][NamesNoQuestion(req', questions)
       => (resp'.code = 404 /\ UNCHANGED <<questions, audit_logs, files>>)]_vars

\* C12 witness: an update of a soft-deleted question was answered 404
C12_Witness ==
  /\ req.op = "update"
  /\ require_editor_or_admin(req.user)
  /\ req.question_id \in DOMAIN questions
  /\ questions[req.question_id].is_deleted
  /\ resp.code = 404

\* the request is an update by an admitted caller of a question that exists
\* in the table qs and is not soft-deleted
UpdatesQuestion(request, qs) ==
  /\ request.op = "update"
  /\ require_editor_or_admin(request.user)
  /\ get_question(qs, request.question_id, FALSE) # None

\* row `new` is row `old` with exactly the fields of the payload assigned the
\* values supplied, and updated_by set to the acting user
AssignsPayload(old, new, payload, user_id) ==
  \A k \in DOMAIN old :
    IF k = "updated_by" THEN new[k] = Some(user_id)
    ELSE IF k \notin DOMAIN payload THEN new[k] = old[k]
    ELSE IF k \in NotNullFields THEN payload[k] # None /\ new[k] = payload[k][1]
    ELSE new[k] = payload[k]

\* C13: crud.update_question on an existing non-deleted question assigns
\* exactly the fields present in the payload to the supplied values, leaves
\* every absent field with its previous value, and sets updated_by to the
\* acting user
C13_UpdateAssignsPresentFields ==
  [][UpdatesQuestion(req', questions)
       => AssignsPayload(questions[req'.question_id], questions'[req'.question_id],
                         WithEditStatus(req'.question_update), req'.user)]_vars

\* the payload gives null to no column declared nullable=False
NoNullForNotNull(payload) ==
  \A k \in DOMAIN payload \cap NotNullFields : payload[k] # None

\* For payloads that give null to no NOT NULL column the statement of C13 holds
UpdateAssignsAcceptedFields ==
  [][(UpdatesQuestion(req', questions) /\ NoNullForNotNull(WithEditStatus(req'.question_update)))
       => AssignsPayload(questions[req'.question_id], questions'[req'.question_id],
                         WithEditStatus(req'.question_update), req'.user)]_vars

\* an update that named two fields, one of them nullable and given null, was
\* applied
UpdateAssignedSeen ==
  /\ req.op = "update"
  /\ resp.code = 200
  /\ "attachment_filename" \in DOMAIN req.question_update
  /\ "question" \in DOMAIN req.question_update
  /\ questions[req.question_id].question = req.question_update["question"][1]
  /\ questions[req.question_id].attachment_filename = None
  /\ questions[req.question_id].updated_by = Some(req.user)

\* the request, by an admitted caller, names a question that exists in the
\* table qs and is not soft-deleted
ActsOnQuestion(request, op, qs) ==
  /\ request.op = op
  /\ require_editor_or_admin(request.user)
  /\ get_question(qs, request.question_id, FALSE) # None

----------------------------------------------------------------------------
(* Claims on the audit sinks over whole runs (Spec) *)

\* sequence a is the beginning of sequence b
IsPrefix(a, b) == Len(a) <= Len(b) /\ SubSeq(b, 1, Len(a)) = a

\* C15: both audit sinks only grow: the audit rows and the lines of every
\* daily file before a step are a prefix of those after it; no question row is
\* removed, every row stays addressable by its id with include_deleted=true,
\* and a deleted flag that is true stays true
C15_SinksAppendOnly ==
  [][/\ IsPrefix(audit_logs, audit_logs')
     /\ \A d \in DOMAIN files : d \in DOMAIN files' /\ IsPrefix(files[d], files'[d])
     /\ \A id \in DOMAIN questions :
          /\ get_question(questions', id, TRUE) # None
          /\ get_question(questions', id, TRUE)[1].id = id
          /\ questions[id].is_deleted => questions'[id].is_deleted]_vars

\* C15 witness: a request was served after a soft delete: the deleted row is
\* still in the table, and a daily file and the audit table hold two records
C15_Witness ==
  /\ req.op \in {"update", "status", "delete", "get"}
  /\ req.question_id \in DOMAIN questions
  /\ questions[req.question_id].is_deleted
  /\ resp.code = 404
  /\ Len(audit_logs) = 2
  /\ \E d \in DOMAIN files : Len(files[d]) = 2 /\ files[d][2].entry.action = "DELETE"

----------------------------------------------------------------------------
(* Claims on file_handler.py (FileSpec) *)

----------------------------------------------------------------------------
(* Claims on concurrent requests (RaceSpec) *)

\* the fields the crud function of the request assigns
AssignedFields(request) ==
  CASE request.op = "status" -> {"status", "updated_by"}
    [] request.op = "delete" -> {"is_deleted", "updated_by"}
    [] request.op = "update" ->
         DOMAIN WithEditStatus(request.question_update) \cup {"updated_by"}

\* the values worker w assigned
Wrote(w) == AssignedObject(sessions[w].request, sessions[w].loaded[1])

\* both requests are over and both committed
BothCommitted == \A w \in Workers : sessions[w].pc = "done" /\ sessions[w].order > 0

\* the worker whose commit came last
LastWriter == CHOOSE w \in Workers : sessions[w].order = Cardinality(Workers)

\* C17: after two operations on the same question that both committed, every
\* field both assigned holds the value of the operation that committed last,
\* and every field holds its first value or a value one of the two assigned
C17_LastWriterWins ==
  BothCommitted =>
    \A k \in DOMAIN questions[RaceId] :
      /\ (\A w \in Workers : k \in AssignedFields(sessions[w].request))
           => questions[RaceId][k] = Wrote(LastWriter)[k]
      /\ \/ questions[RaceId][k] = RaceStart.qs[RaceId][k]
         \/ \E w \in Workers : /\ k \in AssignedFields(sessions[w].request)
                                /\ questions[RaceId][k] = Wrote(w)[k]

\* the fields whose assigned value differs from the value the worker had read
ChangedFields(w) ==
  {k \in AssignedFields(sessions[w].request) : Wrote(w)[k] # sessions[w].loaded[1][k]}

\* Restricted to the fields both operations changed from the value they had
\* read, the statement of C17 holds
LastChangeWins ==
  BothCommitted =>
    \A k \in DOMAIN questions[RaceId] :
      /\ (\A w \in Workers : k \in ChangedFields(w))
           => questions[RaceId][k] = Wrote(LastWriter)[k]
      /\ \/ questions[RaceId][k] = RaceStart.qs[RaceId][k]
         \/ \E w \in Workers : /\ k \in AssignedFields(sessions[w].request)
                                /\ questions[RaceId][k] = Wrote(w)[k]

\* two status-sets to different values both committed, the second on a row
\* the first had already changed
LastChangeSeen ==
  /\ BothCommitted
  /\ \A w \in Workers : sessions[w].request.op = "status" /\ "status" \in ChangedFields(w)
  /\ sessions[1].request.status # sessions[2].request.status
  /\ questions[RaceId].status = sessions[LastWriter].request.status

\* C18: an update that runs beside a soft delete of the same question ends
\* with 404 or with the updated question (200); it never comes to build its
\* after-snapshot when crud.update_question has returned None
C18_UpdateEndsFoundOrNotFound ==
  \A w \in Workers :
    (sessions[w].request.op = "update") =>
      /\ (sessions[w].pc = "finish") => sessions[w].db_question # None
      /\ (sessions[w].pc = "done") => sessions[w].code \in {200, 404}

\* DELETE entries of the question in the daily files
DeleteEntries ==
  {p \in {<<d, i>> : d \in DOMAIN files, i \in 1..(2 * Cardinality(Workers) + 1)} :
     /\ p[2] <= Len(files[p[1]])
     /\ files[p[1]][p[2]].entry.question_id = RaceId
     /\ files[p[1]][p[2]].entry.action = "DELETE"}

\* DELETE rows of the question in audit_logs
DeleteRows ==
  {i \in 1..Len(audit_logs) :
     audit_logs[i].question_id = RaceId /\ audit_logs[i].action = "DELETE"}

\* C19: at most one DELETE record of a question is written to each audit
\* sink, and a delete request whose soft_delete_question call found the
\* question already deleted does not report success
C19_OneDeleteRecord ==
  /\ Cardinality(DeleteEntries) <= 1
  /\ Cardinality(DeleteRows) <= 1
  /\ \A w \in Workers :
       (sessions[w].request.op = "delete" /\ sessions[w].pc = "done" /\ sessions[w].order = 0)
         => sessions[w].code # 200

====
